---------------------------- MODULE Spec2Model ----------------------------
(***************************************************************************)
(* brightfield2fish/data/utils.py: the paired cropper RandomCrop and the   *)
(* numeric transforms normalize_*, float_to_uint and prep_fish.            *)
(*                                                                         *)
(* Two specifications share the module:                                    *)
(*   SpecCrop  one RandomCrop object: construction, then any crop calls;   *)
(*   SpecNum   one caller-owned array and any calls of the transforms.     *)
(***************************************************************************)
EXTENDS Integers, Sequences, FiniteSets

VARIABLES
    shape,      \* array.shape of the reference array given to RandomCrop
    crop_size,  \* the crop_size tuple given to RandomCrop
    state,      \* "uninitialized" | "bound" | "error" (construction raised)
    slices,     \* self.slices: one [start, stop] per zipped axis
    lastCrop,   \* the latest crop call: [X |-> X.shape, out |-> the result]
    input,      \* the caller-owned array handed to a transform
    last,       \* the latest transform call and its arguments
    result      \* the array that call returned

vars == <<shape, crop_size, state, slices, lastCrop, input, last, result>>

cropVars == <<shape, crop_size, state, slices, lastCrop>>
numVars == <<input, last, result>>

None == [none |-> TRUE]

-----------------------------------------------------------------------------
(* Bounds of the model. *)

\* largest number of axes of an array or entries of a crop_size tuple
MaxRank == 2
\* largest extent of an array along one axis (SpecCrop)
MaxDim == 2

Min(a, b) == IF a < b THEN a ELSE b
Max(a, b) == IF a > b THEN a ELSE b

SeqsUpTo(S, n) == UNION {[1..k -> S] : k \in 1..n}

-----------------------------------------------------------------------------
(* RandomCrop *)

\* random.randint(a, b): the values a draw can return, a <= N <= b.  The
\* empty set is the ValueError ("empty range for randrange()") that the
\* standard library raises when b < a.
randint_swapping(a, b) == IF b < a THEN b..a ELSE a..b
randint_exclusive_low(a, b) == (a + 1)..(b + 1)
randint(a, b) == a..b

RECURSIVE SeqMax(_)
SeqMax(q) == IF Len(q) = 0 THEN 0 ELSE Max(q[1], SeqMax(Tail(q)))

\* zip(p, q): pairs up to the shorter of the two.
ZipLen(p, q) == Min(Len(p), Len(q))

\* line 158: the list comprehension raises as soon as one draw raises.
StartRaises(shp, csz) ==
    \E ax \in 1..ZipLen(shp, csz) : randint(0, shp[ax] - csz[ax]) = {}

\* line 158: every list of starts the draws can produce.
StartChoices(shp, csz) ==
    {st \in [1..ZipLen(shp, csz) -> 0..SeqMax(shp)] :
        \A ax \in 1..ZipLen(shp, csz) : st[ax] \in randint(0, shp[ax] - csz[ax])}

\* line 159: tuple(slice(s, s + c) for s, c in zip(start, crop_size))
MakeSlices_short_stop(start, csz) ==
    [ax \in 1..ZipLen(start, csz) |->
        [start |-> start[ax], stop |-> start[ax] + csz[ax] - 1]]
MakeSlices(start, csz) ==
    [ax \in 1..ZipLen(start, csz) |->
        [start |-> start[ax], stop |-> start[ax] + csz[ax]]]

\* slice(start, stop).indices(n) for start, stop >= 0, as the 0-based source
\* indices selected along an axis of extent n: both ends are clipped to n.
SliceIndices_inclusive_stop(sl, n) ==
    LET lo == Min(sl.start, n)
        hi == Min(sl.stop + 1, n)
    IN  [k \in 1..Max(hi - lo, 0) |-> lo + k - 1]
SliceIndices(sl, n) ==
    LET lo == Min(sl.start, n)
        hi == Min(sl.stop, n)
    IN  [k \in 1..Max(hi - lo, 0) |-> lo + k - 1]

\* X[self.slices] for an array of shape xs, as the source indices idx kept
\* along each axis: more slices than axes is an IndexError (error), axes
\* beyond the tuple are kept whole.
GetItem(xs, sls) ==
    IF Len(sls) > Len(xs)
    THEN [error |-> TRUE, idx |-> <<>>]
    ELSE [error |-> FALSE,
          idx |-> [ax \in 1..Len(xs) |->
                    IF ax <= Len(sls)
                    THEN SliceIndices(sls[ax], xs[ax])
                    ELSE [k \in 1..xs[ax] |-> k - 1]]]

\* the shape of a cropped array
OutShape(out) == [ax \in 1..Len(out) |-> Len(out[ax])]

Shapes == SeqsUpTo(1..MaxDim, MaxRank)
\* one above MaxDim is enough for a crop size to exceed every axis
CropSizes == SeqsUpTo(0..(MaxDim + 1), MaxRank)

\* RandomCrop.__init__(array, crop_size)
RandomCrop_init ==
    /\ state = "uninitialized"
    /\ IF StartRaises(shape, crop_size)
       THEN /\ state' = "error"
            /\ slices' = slices
       ELSE \E start \in StartChoices(shape, crop_size) :
                /\ slices' = MakeSlices(start, crop_size)
                /\ state' = "bound"
    /\ UNCHANGED <<shape, crop_size, lastCrop>>
    /\ UNCHANGED numVars

\* a crop that draws its offsets again from the array it is given
crop_redrawing(X) ==
    /\ state = "bound"
    /\ ~ StartRaises(X, crop_size)
    /\ \E start \in StartChoices(X, crop_size) :
        /\ slices' = MakeSlices(start, crop_size)
        /\ lastCrop' = [X |-> X, out |-> GetItem(X, slices')]
    /\ UNCHANGED <<shape, crop_size, state>>
    /\ UNCHANGED numVars

\* RandomCrop.crop(X), X given by its shape
crop(X) ==
    /\ state = "bound"
    /\ lastCrop' = [X |-> X, out |-> GetItem(X, slices)]
    /\ UNCHANGED <<shape, crop_size, state, slices>>
    /\ UNCHANGED numVars

InitCrop ==
    /\ shape \in Shapes
    /\ crop_size \in CropSizes
    /\ state = "uninitialized"
    /\ slices = <<>>
    /\ lastCrop = None
    /\ input = None
    /\ last = None
    /\ result = None

Crop == \E X \in Shapes : crop(X)

NextCrop == RandomCrop_init \/ Crop

SpecCrop == InitCrop /\ [][NextCrop]_vars

-----------------------------------------------------------------------------
(* Properties of RandomCrop, checked under SpecCrop *)

SameRank == Len(crop_size) = Len(shape)

Cropped == lastCrop # None /\ ~ lastCrop.out.error

\* C1: once the object is bound, no step changes self.slices; every crop
\* returns, along each stored axis, the source indices start, start+1, ...
\* of the stored slice; and a crop of an array of the same shape as the
\* previous one returns the same index positions.
C1_CropReplaysStoredRegion ==
    [][state = "bound" =>
        /\ slices' = slices
        /\ (lastCrop' # None /\ ~ lastCrop'.out.error) =>
              \A ax \in 1..Len(slices) :
                 \A k \in 1..Len(lastCrop'.out.idx[ax]) :
                    lastCrop'.out.idx[ax][k] = slices[ax].start + k - 1
        /\ (lastCrop # None /\ lastCrop' # None /\ lastCrop'.X = lastCrop.X) =>
              lastCrop'.out = lastCrop.out
     ]_vars

\* C1 witness: an array of the reference shape was cropped at a nonzero
\* random offset.
C1_Witness ==
    /\ Cropped
    /\ SameRank
    /\ lastCrop.X = shape
    /\ \E ax \in 1..Len(slices) : slices[ax].start > 0 /\ Len(lastCrop.out.idx[ax]) > 0

\* C2: for crop_size with one entry per axis and 0 <= crop_size <= shape,
\* the stored specification has one slice per axis, of length
\* crop_size[axis], lying inside 0..shape[axis].
C2_SlicesInsideReference ==
    (/\ state = "bound"
     /\ SameRank
     /\ \A ax \in 1..Len(shape) : 0 <= crop_size[ax] /\ crop_size[ax] <= shape[ax])
    => /\ Len(slices) = Len(shape)
       /\ \A ax \in 1..Len(shape) :
            /\ slices[ax].stop - slices[ax].start = crop_size[ax]
            /\ 0 <= slices[ax].start
            /\ slices[ax].stop <= shape[ax]

\* C2 witness: a bound two-axis specification whose draw was the largest
\* offset on one axis and zero on the other.
C2_Witness ==
    /\ state = "bound"
    /\ SameRank
    /\ Len(slices) = MaxRank
    /\ \E ax \in 1..Len(slices) :
          slices[ax].stop = shape[ax] /\ slices[ax].start > 0
    /\ \E ax \in 1..Len(slices) :
          slices[ax].start = 0 /\ slices[ax].stop < shape[ax]

\* C3: crop(X) of an array X of the reference shape S has shape exactly C.
C3_CropOfReferenceShape ==
    (/\ lastCrop # None
     /\ SameRank
     /\ lastCrop.X = shape)
    => /\ ~ lastCrop.out.error
       /\ OutShape(lastCrop.out.idx) = crop_size

\* C3 witness: a proper sub-array of an array of the reference shape.
C3_Witness ==
    /\ Cropped
    /\ SameRank
    /\ lastCrop.X = shape
    /\ OutShape(lastCrop.out.idx) # shape
    /\ \A ax \in 1..Len(shape) : Len(lastCrop.out.idx[ax]) > 0

\* some zipped axis has crop_size[axis] > array.shape[axis]
CropExceedsShape ==
    \E ax \in 1..ZipLen(shape, crop_size) : crop_size[ax] > shape[ax]

\* C4: when crop_size exceeds the reference shape on some axis,
\* construction raises: the object is never bound and no slice is stored.
C4_OversizeCropRaises ==
    CropExceedsShape =>
        /\ state \in {"uninitialized", "error"}
        /\ slices = <<>>
        /\ lastCrop = None

\* C4 witness: construction raised although one of two axes was in range.
C4_Witness ==
    /\ state = "error"
    /\ SameRank
    /\ \E ax \in 1..Len(shape) : crop_size[ax] > shape[ax]
    /\ \E ax \in 1..Len(shape) : crop_size[ax] <= shape[ax]

\* the array cropped last has the rank of crop_size and is at least
\* crop_size along every axis
XAtLeastCrop ==
    /\ lastCrop # None
    /\ SameRank
    /\ Len(lastCrop.X) = Len(crop_size)
    /\ \A ax \in 1..Len(crop_size) : lastCrop.X[ax] >= crop_size[ax]

\* C8 as stated: crop(X) has shape exactly C for every X that is at least C
\* along every axis.
C8_AnyLargeEnoughArray ==
    XAtLeastCrop =>
        /\ ~ lastCrop.out.error
        /\ OutShape(lastCrop.out.idx) = crop_size

\* C8 amended: crop(X) has shape exactly C for every X that reaches the end
\* of the stored slice, start + length, along every axis (as every X at
\* least as large as the reference array does).
C8_ArrayCoversStoredSlice ==
    (/\ XAtLeastCrop
     /\ \A ax \in 1..Len(slices) : lastCrop.X[ax] >= slices[ax].stop)
    => /\ ~ lastCrop.out.error
       /\ OutShape(lastCrop.out.idx) = crop_size

\* C8 witness: an array other than the reference shape, covering the stored
\* slice, was cropped to a non-empty sub-array.
C8_Witness ==
    /\ XAtLeastCrop
    /\ lastCrop.X # shape
    /\ \A ax \in 1..Len(slices) :
          lastCrop.X[ax] >= slices[ax].stop /\ crop_size[ax] > 0
    /\ \E ax \in 1..Len(slices) : slices[ax].start > 0

-----------------------------------------------------------------------------
(* Numbers.  Array elements are exact rationals [n, d], d > 0, in lowest   *)
(* terms; the arithmetic of the transforms is carried out exactly.  The    *)
(* precision of a floating dtype enters where the code stores an integer   *)
(* constant into a floating array (RoundToMant), the width of an unsigned  *)
(* dtype where it casts (uint_cast).                                       *)

\* longest array handed to a transform (arrays are held flattened: every
\* statistic of the code is taken over all elements)
MaxLen == 3
\* input elements are k / 2 for k in 0..MaxNum
MaxNum == 2
\* widest unsigned dtype, in bits
MaxWidth == 3
\* most precise floating dtype, in significand bits
MaxMant == 3

Abs(x) == IF x < 0 THEN 0 - x ELSE x

RECURSIVE GCD(_, _)
GCD(a, b) == IF b = 0 THEN a ELSE GCD(b, a % b)

RECURSIVE Pow2(_)
Pow2(k) == IF k = 0 THEN 1 ELSE 2 * Pow2(k - 1)

\* the rational n / d (d # 0) in lowest terms
R(n, d) ==
    LET g == GCD(Abs(n), Abs(d))
        sgn == IF d < 0 THEN 0 - 1 ELSE 1
    IN  [n |-> sgn * (n \div g), d |-> sgn * (d \div g)]

Zero == R(0, 1)
One == R(1, 1)
RInt(k) == R(k, 1)

RAdd(a, b) ==
    LET g == GCD(a.d, b.d)
    IN  R(a.n * (b.d \div g) + b.n * (a.d \div g), (a.d \div g) * b.d)
RNeg(a) == [n |-> 0 - a.n, d |-> a.d]
RSub(a, b) == RAdd(a, RNeg(b))
RMul(a, b) ==
    LET g1 == GCD(Abs(a.n), b.d)
        g2 == GCD(Abs(b.n), a.d)
    IN  R((a.n \div g1) * (b.n \div g2), (a.d \div g2) * (b.d \div g1))
\* a / b for b # 0
RDiv(a, b) == RMul(a, R(b.d, b.n))
RLt(a, b) ==
    LET g == GCD(a.d, b.d) IN a.n * (b.d \div g) < b.n * (a.d \div g)
RLe(a, b) ==
    LET g == GCD(a.d, b.d) IN a.n * (b.d \div g) <= b.n * (a.d \div g)
RMin(a, b) == IF RLt(b, a) THEN b ELSE a
RMax(a, b) == IF RLt(a, b) THEN b ELSE a
RFloor(a) == a.n \div a.d
\* rounding toward zero, as a cast of a float to an integer type does
RTrunc(a) == IF a.n < 0 THEN 0 - ((0 - a.n) \div a.d) ELSE a.n \div a.d

\* dtypes: a floating dtype by its significand bits, an unsigned dtype by
\* its width
FloatDtype(p) == [kind |-> "float", bits |-> p]
UintDtype(w) == [kind |-> "uint", bits |-> w]
\* two floating dtypes, the less precise one narrower than the widest
\* unsigned dtype (as float32 is for uint32, float64 for uint64)
FloatDtypes == {FloatDtype(p) : p \in (MaxMant - 1)..MaxMant}
UintDtypes == {UintDtype(w) : w \in 1..MaxWidth}

\* an array object: its dtype and its elements
Arr(dt, data) == [dtype |-> dt, data |-> data]

RECURSIVE BitLen(_)
BitLen(k) == IF k = 0 THEN 0 ELSE 1 + BitLen(k \div 2)

\* the positive integer k rounded to p significand bits, ties to even: the
\* value a floating array of that precision holds after k is stored in it
RoundToMant(k, p) ==
    IF BitLen(k) <= p
    THEN k
    ELSE LET q == Pow2(BitLen(k) - p)
             lo == (k \div q) * q
             hi == lo + q
         IN  IF 2 * (k - lo) < q THEN lo
             ELSE IF 2 * (k - lo) > q THEN hi
             ELSE IF (lo \div q) % 2 = 0 THEN lo ELSE hi

\* whether the rational v is a value of a floating dtype of p significand
\* bits (the exponent range is taken to be wide enough)
Representable(v, p) ==
    /\ v.d = Pow2(BitLen(v.d) - 1)
    /\ LET m == Abs(v.n) IN m = 0 \/ BitLen(m \div GCD(m, Pow2(BitLen(m)))) <= p

-----------------------------------------------------------------------------
(* numpy reductions and element-wise operations on the elements of an      *)
(* array (a non-empty sequence of rationals)                               *)

\* the elements of an array as an explicit tuple
Elements(f) == SubSeq(f, 1, Len(f))

RECURSIVE np_min(_)
np_min(x) == IF Len(x) = 1 THEN x[1] ELSE RMin(x[1], np_min(Tail(x)))

RECURSIVE np_max(_)
np_max(x) == IF Len(x) = 1 THEN x[1] ELSE RMax(x[1], np_max(Tail(x)))

RECURSIVE Sum(_)
Sum(x) == IF Len(x) = 0 THEN Zero ELSE RAdd(x[1], Sum(Tail(x)))

np_mean(x) == RDiv(Sum(x), RInt(Len(x)))

\* np.std(x) ** 2: the mean of the squared deviations from the mean
Variance(x) ==
    LET m == np_mean(x)
    IN  np_mean([i \in 1..Len(x) |-> RMul(RSub(x[i], m), RSub(x[i], m))])

\* the elements in ascending order
RECURSIVE Sorted(_)
Sorted(x) ==
    IF Len(x) = 0
    THEN <<>>
    ELSE LET m == np_min(x)
             i == CHOOSE j \in 1..Len(x) : x[j] = m
         IN  <<m>> \o Sorted(SubSeq(x, 1, i - 1) \o SubSeq(x, i + 1, Len(x)))

\* np.percentile(x, q), q a rational in [0, 100]: linear interpolation
\* between the two order statistics around the virtual index (n - 1) q / 100
np_percentile(x, q) ==
    LET srt == Sorted(x)
        h == RDiv(RMul(RInt(Len(x) - 1), q), RInt(100))
        lo == RFloor(h)
        frac == RSub(h, RInt(lo))
    IN  IF lo + 1 >= Len(x)
        THEN srt[Len(x)]
        ELSE RAdd(srt[lo + 1], RMul(frac, RSub(srt[lo + 2], srt[lo + 1])))

\* np.median(x): the middle order statistic, or the mean of the two
np_median(x) ==
    LET srt == Sorted(x)
        n == Len(x)
    IN  IF n % 2 = 1
        THEN srt[(n + 1) \div 2]
        ELSE RDiv(RAdd(srt[n \div 2], srt[n \div 2 + 1]), RInt(2))

\* np.clip(x, a_min, a_max): minimum(maximum(x, a_min), a_max)
np_clip(x, a_min, a_max) ==
    Elements([i \in 1..Len(x) |-> RMin(RMax(x[i], a_min), a_max)])

SubScalar(x, c) == Elements([i \in 1..Len(x) |-> RSub(x[i], c)])
DivScalar(x, c) == Elements([i \in 1..Len(x) |-> RDiv(x[i], c)])
MulScalar(x, c) == Elements([i \in 1..Len(x) |-> RMul(x[i], c)])

-----------------------------------------------------------------------------
(* The heap: a sequence of array objects, a reference is an index.  A      *)
(* numpy expression that builds a new array allocates; an augmented        *)
(* assignment or an indexed assignment writes the object in place.  Each   *)
(* transform takes the heap and the reference it is given and returns the  *)
(* heap at return and the reference it returns.                            *)

Alloc(h, a) == Append(h, a)
NewRef(h) == Len(h) + 1
Write(h, ref, data) == [h EXCEPT ![ref] = Arr(h[ref].dtype, data)]

\* normalize_image_zero_one(im), lines 17-20
normalize_image_zero_one_unshifted_max(h, im) ==
    LET h1 == Alloc(h, Arr(h[im].dtype, SubScalar(h[im].data, np_min(h[im].data))))
        im1 == NewRef(h)
        divide == RLt(Zero, np_max(h[im].data))
        h2 == IF divide
              THEN Alloc(h1, Arr(h1[im1].dtype,
                                 DivScalar(h1[im1].data, np_max(h[im].data))))
              ELSE h1
        im2 == IF divide THEN NewRef(h1) ELSE im1
    IN  [h |-> h2, ret |-> im2]
normalize_image_zero_one(h, im) ==
    LET \* line 17: im = im - np.min(im)
        h1 == Alloc(h, Arr(h[im].dtype, SubScalar(h[im].data, np_min(h[im].data))))
        im1 == NewRef(h)
        \* lines 18-19: if np.max(im) > 0: im = im / np.max(im)
        divide == RLt(Zero, np_max(h1[im1].data))
        h2 == IF divide
              THEN Alloc(h1, Arr(h1[im1].dtype,
                                 DivScalar(h1[im1].data, np_max(h1[im1].data))))
              ELSE h1
        im2 == IF divide THEN NewRef(h1) ELSE im1
    IN  [h |-> h2, ret |-> im2]

\* normalize_image_center_scale(im), lines 32-34.  np.std is a square root:
\* an element of the result is held as [num, sqrtden], the value
\* num / sqrt(sqrtden); sqrtden = 0 (a constant array) is the division by
\* zero the code does not guard.
normalize_image_center_scale(h, im) ==
    LET \* line 32: im = im - np.mean(im)
        h1 == Alloc(h, Arr(h[im].dtype, SubScalar(h[im].data, np_mean(h[im].data))))
        im1 == NewRef(h)
        \* line 33: im = im / np.std(im)
        var == Variance(h1[im1].data)
        h2 == Alloc(h1, Arr(h1[im1].dtype,
                  Elements([i \in 1..Len(h1[im1].data) |->
                      [num |-> h1[im1].data[i], sqrtden |-> var]])))
    IN  [h |-> h2, ret |-> NewRef(h1)]

\* normalize(im, content), lines 62-66
normalize(h, im, content) ==
    IF content = "Brightfield"
    THEN normalize_image_center_scale(h, im)
    ELSE normalize_image_zero_one(h, im)

-----------------------------------------------------------------------------
(* float_to_uint *)

\* np.iinfo(uint_dtype).max
iinfo_max(dt) == Pow2(dt.bits) - 1

\* the values a cast of the floating value v to the unsigned dtype dt can
\* produce: the truncated value when the type holds it; otherwise the
\* conversion is undefined in C and any value of the type can result
uint_cast(v, dt) ==
    IF 0 <= RTrunc(v) /\ RTrunc(v) <= iinfo_max(dt)
    THEN {RInt(RTrunc(v))}
    ELSE {RInt(k) : k \in 0..iinfo_max(dt)}

\* np.asarray(x, uint_dtype): every array the element-wise casts can give;
\* a cast is a function of the value, so equal elements get equal results
RECURSIVE np_asarray(_, _)
np_asarray(x, dt) ==
    IF Len(x) = 0
    THEN {<<>>}
    ELSE UNION {
            {<<e>> \o t :
                e \in {c \in uint_cast(x[1], dt) :
                          \A j \in 1..Len(t) : x[j + 1] = x[1] => t[j] = c}} :
            t \in np_asarray(Tail(x), dt)}

\* line 81: im[im == imax] = imax - 1, the integer imax - 1 stored into an
\* array of floating dtype fdt
ClampStore(x, imax, fdt) ==
    Elements([i \in 1..Len(x) |->
        IF x[i] = RInt(imax) THEN RInt(RoundToMant(imax - 1, fdt.bits)) ELSE x[i]])

\* float_to_uint(im, uint_dtype), lines 79-83: the set of outcomes
float_to_uint_inplace(h, im, uint_dtype) ==
    LET imax == iinfo_max(uint_dtype) + 1
        h1 == Write(h, im, MulScalar(h[im].data, RInt(imax)))
        h2 == Write(h1, im, ClampStore(h1[im].data, imax, h1[im].dtype))
    IN  {[h |-> Alloc(h2, Arr(uint_dtype, r)), ret |-> NewRef(h2)] :
            r \in np_asarray(h2[im].data, uint_dtype)}
float_to_uint(h, im, uint_dtype) ==
    LET \* line 79: imax = np.iinfo(uint_dtype).max + 1
        imax == iinfo_max(uint_dtype) + 1
        \* line 80: im = im * imax
        h1 == Alloc(h, Arr(h[im].dtype, MulScalar(h[im].data, RInt(imax))))
        im1 == NewRef(h)
        \* line 81: im[im == imax] = imax - 1
        h2 == Write(h1, im1, ClampStore(h1[im1].data, imax, h1[im1].dtype))
        \* lines 82-83: im = np.asarray(im, uint_dtype); return im
    IN  {[h |-> Alloc(h2, Arr(uint_dtype, r)), ret |-> NewRef(h2)] :
            r \in np_asarray(h2[im1].data, uint_dtype)}

-----------------------------------------------------------------------------
(* prep_fish *)

\* "uint" in str(out_dtype)
IsUint(dt) == dt.kind = "uint"

\* lines 116-118: img3d -= np.median(img3d); img3d[img3d < 0] = 0
MedianSubtract_no_floor(x) == SubScalar(x, np_median(x))
MedianSubtract(x) ==
    LET sub == SubScalar(x, np_median(x))
    IN  Elements([i \in 1..Len(sub) |-> IF RLt(sub[i], Zero) THEN Zero ELSE sub[i]])

\* prep_fish(image, clip_percentiles, median_subtract, math_dtype,
\* out_dtype), lines 109-122: the set of outcomes.  image is the reference
\* of the array the image accessor returns for the channel and time point;
\* handed is the reference passed to float_to_uint (0: not called).
prep_fish(h, image, clip_percentiles, median_subtract, math_dtype, out_dtype) ==
    LET \* line 109: img3d = image.get_image_data("ZYX", T=T, C=channel)
        img3d0 == image
        \* line 110: img3d = img3d.astype(math_dtype)
        h1 == Alloc(h, Arr(math_dtype, h[img3d0].data))
        img3d1 == NewRef(h)
        \* lines 111-115: img3d = np.clip(img3d, a_min=..., a_max=...)
        h2 == Alloc(h1, Arr(h1[img3d1].dtype,
                  np_clip(h1[img3d1].data,
                          np_percentile(h1[img3d1].data, clip_percentiles[1]),
                          np_percentile(h1[img3d1].data, clip_percentiles[2]))))
        img3d2 == NewRef(h1)
        \* lines 116-118
        h3 == IF median_subtract
              THEN Write(h2, img3d2, MedianSubtract(h2[img3d2].data))
              ELSE h2
        \* line 119: img3d = normalize_image_zero_one(img3d)
        z == normalize_image_zero_one(h3, img3d2)
        \* lines 120-122
    IN  IF IsUint(out_dtype)
        THEN {[h |-> q.h, ret |-> q.ret, handed |-> z.ret] :
                 q \in float_to_uint(z.h, z.ret, out_dtype)}
        ELSE {[h |-> z.h, ret |-> z.ret, handed |-> 0]}

-----------------------------------------------------------------------------
(* SpecNum: a caller holds one array, input, and calls the transforms on   *)
(* it, one call after another.  Each call runs on a heap holding the       *)
(* caller's array at reference 1; input is the content of that object      *)
(* when the call returns.                                                  *)

\* the elements an input array is built from: k / 2
InputValues == {R(k, 2) : k \in 0..MaxNum}

\* the caller's arrays are of the less precise floating dtype
InputDtype == FloatDtype(MaxMant - 1)

Inputs ==
    {Arr(InputDtype, x) : x \in {y \in SeqsUpTo(InputValues, MaxLen) :
        \A i \in 1..Len(y) : Representable(y[i], InputDtype.bits)}}

\* the percentiles offered to prep_fish; 0 and 99.99 are its defaults
ClipPercentiles == {R(0, 1), R(50, 1), R(9999, 100)}

InitNum ==
    /\ input \in Inputs
    /\ last = None
    /\ result = None
    /\ shape = <<>>
    /\ crop_size = <<>>
    /\ state = "uninitialized"
    /\ slices = <<>>
    /\ lastCrop = None

Call_normalize_image_zero_one ==
    /\ last = None
    /\ LET r == normalize_image_zero_one(<<input>>, 1)
       IN  /\ input' = r.h[1]
           /\ result' = r.h[r.ret]
           /\ last' = [fn |-> "normalize_image_zero_one"]
           /\ UNCHANGED cropVars

Call_normalize_image_center_scale ==
    /\ last = None
    /\ LET r == normalize_image_center_scale(<<input>>, 1)
       IN  /\ input' = r.h[1]
           /\ result' = r.h[r.ret]
           /\ last' = [fn |-> "normalize_image_center_scale"]
           /\ UNCHANGED cropVars

Call_normalize ==
    /\ last = None
    /\ \E content \in {"Brightfield", "FISH"} :
        LET r == normalize(<<input>>, 1, content)
        IN  /\ input' = r.h[1]
            /\ result' = r.h[r.ret]
            /\ last' = [fn |-> "normalize", content |-> content]
            /\ UNCHANGED cropVars

Call_float_to_uint ==
    /\ last = None
    /\ \E uint_dtype \in UintDtypes :
        \E r \in float_to_uint(<<input>>, 1, uint_dtype) :
            /\ input' = r.h[1]
            /\ result' = r.h[r.ret]
            /\ last' = [fn |-> "float_to_uint", uint_dtype |-> uint_dtype]
            /\ UNCHANGED cropVars

Call_prep_fish ==
    /\ last = None
    /\ \E lowq \in ClipPercentiles, highq \in ClipPercentiles,
       median_subtract \in BOOLEAN,
       math_dtype \in FloatDtypes, out_dtype \in FloatDtypes \cup UintDtypes :
        \E r \in prep_fish(<<input>>, 1, <<lowq, highq>>, median_subtract,
                           math_dtype, out_dtype) :
            /\ input' = r.h[1]
            /\ result' = r.h[r.ret]
            /\ last' = [fn |-> "prep_fish",
                        clip_percentiles |-> <<lowq, highq>>,
                        median_subtract |-> median_subtract,
                        math_dtype |-> math_dtype,
                        out_dtype |-> out_dtype,
                        handed |-> IF r.handed = 0 THEN None ELSE r.h[r.handed]]
            /\ UNCHANGED cropVars

\* rc = RandomCrop(input, (c,)); rc.crop(input), on the flattened array: the
\* result is a view, the elements of the caller's array at the kept indices
Call_crop ==
    /\ last = None
    /\ \E c \in 0..Len(input.data) :
        \E start \in StartChoices(<<Len(input.data)>>, <<c>>) :
            LET out == GetItem(<<Len(input.data)>>, MakeSlices(start, <<c>>))
            IN  /\ result' = Arr(input.dtype, Elements(
                        [k \in 1..Len(out.idx[1]) |-> input.data[out.idx[1][k] + 1]]))
                /\ last' = [fn |-> "crop", slices |-> MakeSlices(start, <<c>>)]
                /\ input' = input
                /\ UNCHANGED cropVars

\* the caller drops the returned array and keeps its own for the next call
Discard ==
    /\ last # None
    /\ last' = None
    /\ result' = None
    /\ UNCHANGED input
    /\ UNCHANGED cropVars

NextNum ==
    \/ Call_normalize_image_zero_one
    \/ Call_normalize_image_center_scale
    \/ Call_normalize
    \/ Call_float_to_uint
    \/ Call_prep_fish
    \/ Call_crop
    \/ Discard

SpecNum == InitNum /\ [][NextNum]_vars

-----------------------------------------------------------------------------
(* Properties of the transforms, checked under SpecNum *)

Called(fn) == last # None /\ last.fn = fn

InUnitInterval(x) == \A i \in 1..Len(x) : RLe(Zero, x[i]) /\ RLe(x[i], One)

AllZero(x) == \A i \in 1..Len(x) : x[i] = Zero

\* C5 as stated: for an input with all values in [0,1] and an unsigned
\* dtype of width w, every element of float_to_uint(im) lies in
\* [0, 2^w - 1], equals floor(v * 2^w) for v < 1, and is 2^w - 1 for v = 1.
C5_QuantizeUnitInterval ==
    (Called("float_to_uint") /\ InUnitInterval(input.data)) =>
        /\ result.dtype = last.uint_dtype
        /\ Len(result.data) = Len(input.data)
        /\ \A i \in 1..Len(input.data) :
            /\ RLe(Zero, result.data[i])
            /\ RLe(result.data[i], RInt(iinfo_max(last.uint_dtype)))
            /\ RLt(input.data[i], One) =>
                 result.data[i] =
                    RInt(RFloor(RMul(input.data[i],
                                     RInt(iinfo_max(last.uint_dtype) + 1))))
            /\ input.data[i] = One =>
                 result.data[i] = RInt(iinfo_max(last.uint_dtype))

\* C6: normalize_image_zero_one keeps the shape; a non-constant array is
\* mapped to (im - min) / (max - min), with minimum 0 and maximum 1; a
\* constant array is mapped to the all-zero array.
C6_ZeroOne ==
    Called("normalize_image_zero_one") =>
        LET mn == np_min(input.data)
            mx == np_max(input.data)
        IN  /\ Len(result.data) = Len(input.data)
            /\ IF mn # mx
               THEN /\ np_min(result.data) = Zero
                    /\ np_max(result.data) = One
                    /\ \A i \in 1..Len(input.data) :
                         result.data[i] = RDiv(RSub(input.data[i], mn), RSub(mx, mn))
               ELSE AllZero(result.data)

\* C6 witness: a non-constant array whose minimum is not zero was
\* normalized to an array that differs from it.
C6_Witness ==
    /\ Called("normalize_image_zero_one")
    /\ Len(input.data) > 1
    /\ np_min(input.data) # Zero
    /\ np_min(input.data) # np_max(input.data)
    /\ result.data # input.data

\* C7 as stated: the dtype of the array prep_fish returns is out_dtype.
C7_OutputDtype ==
    Called("prep_fish") => result.dtype = last.out_dtype

\* the array after the percentile clip of lines 111-115
Clipped ==
    np_clip(input.data,
            np_percentile(input.data, last.clip_percentiles[1]),
            np_percentile(input.data, last.clip_percentiles[2]))

AllAtOrBelowMedian ==
    \A i \in 1..Len(Clipped) : RLe(Clipped[i], np_median(Clipped))

\* with low <= high: float_to_uint is called exactly for an unsigned
\* out_dtype and is handed values in [0,1]; the result has values in [0,1]
\* (float) or integers in [0, max(out_dtype)] (unsigned)
PrepFishRanges ==
    /\ Len(result.data) = Len(input.data)
    /\ IF IsUint(last.out_dtype)
       THEN /\ last.handed # None
            /\ InUnitInterval(last.handed.data)
            /\ \A i \in 1..Len(result.data) :
                 /\ result.data[i].d = 1
                 /\ 0 <= result.data[i].n
                 /\ result.data[i].n <= iinfo_max(last.out_dtype)
       ELSE /\ last.handed = None
            /\ InUnitInterval(result.data)

PrepFishCalled ==
    /\ Called("prep_fish")
    /\ RLe(last.clip_percentiles[1], last.clip_percentiles[2])

\* C9 as stated: the ranges, and an input whose values are all at or below
\* the median after clipping gives the all-zero array, for either value of
\* median_subtract.
C9_PrepFishPipeline ==
    PrepFishCalled =>
        /\ PrepFishRanges
        /\ AllAtOrBelowMedian => AllZero(result.data)

\* C9 amended: the ranges, and with median_subtract enabled an input whose
\* values are all at or below the median after clipping gives the all-zero
\* array.
C9_PrepFishPipelineMedian ==
    PrepFishCalled =>
        /\ PrepFishRanges
        /\ (last.median_subtract /\ AllAtOrBelowMedian) => AllZero(result.data)

\* C9 witness: a non-constant volume, clipped with low < high, whose values
\* are all at or below the median was median-subtracted and quantized to
\* the all-zero array.
C9_Witness ==
    /\ PrepFishCalled
    /\ last.clip_percentiles[1] # last.clip_percentiles[2]
    /\ last.median_subtract
    /\ IsUint(last.out_dtype)
    /\ np_min(Clipped) # np_max(Clipped)
    /\ AllAtOrBelowMedian
    /\ AllZero(result.data)

\* C10: no call changes the array the caller passed in.
C10_InputUntouched == [][input' = input]_vars

\* C10 witness: float_to_uint returned from a call in which the boundary
\* clamp fired.
C10_Witness ==
    /\ Called("float_to_uint")
    /\ \E i \in 1..Len(input.data) :
          /\ input.data[i] = One
          /\ result.data[i] = RInt(iinfo_max(last.uint_dtype))

=============================================================================
